---- MODULE Spec2Model ----
(***************************************************************************)
(* Model of the page interaction controller of amcho-pasro                 *)
(* (static/main.js and its server-delegated variant).                      *)
(*                                                                         *)
(* The multi-step form wizard (initMultiStepForms) is modelled for one     *)
(* form element: every form gets its own closure (steps, progressSteps,    *)
(* prevBtn, nextBtn, submitBtn, activeIndex), so forms do not interact.    *)
(* Indices are 0-based as in the source; TLA+ sequences are 1-based, so    *)
(* the panel with index k is steps[k + 1].                                 *)
(*                                                                         *)
(* The sidebar (openSidebar, closeSidebar and their listeners), the signup *)
(* submit handler of the client-validated variant and the store map of     *)
(* static/home-map.js are separate components that share no state with     *)
(* the wizard: each has its own variables and its own specification, in    *)
(* which the variables of the other components stay at rest.               *)
(***************************************************************************)
EXTENDS Integers, Sequences, FiniteSets, TLC

\* ---- bounds of the model ------------------------------------------------
MaxSteps == 3
MaxProgress == 2
MaxControls == 2
MaxEvents == 4

VARIABLES
    steps,          \* the .form-step panels: sequence of [isActive, ariaHidden]
    controls,       \* controls[k+1]: validity of the input/select/textarea of panel k
    progressSteps,  \* the .form-progress__step indicators: [isActive, isComplete]
    prevBtn,        \* "absent", "enabled" or "disabled"
    nextBtn,        \* "absent", "shown" or "hidden"
    submitBtn,      \* "absent", "shown" or "hidden"
    formId,         \* the id attribute of the form, "" when it has none
    reportValidityApi, \* typeof control.reportValidity === "function"
    enabled,        \* the form carries the class multi-step-enabled
    activeIndex,    \* the closure variable activeIndex
    events,         \* the amcho:stepchange events dispatched on window, in order
    phase,          \* "loading" (before DOMContentLoaded), "ready", "submitted"
    last,           \* the DOM event handled last and what its handler did
    \* -- the sidebar (main.js lines 1-48)
    mobileMenuToggle, \* "absent", or its class: "" or "active"
    mobileSidebar,    \* "absent", or its class: "" or "active"
    sidebarOverlay,   \* "absent", or its class: "" or "active"
    sidebarClose,     \* the close control exists
    sidebarLinks,     \* number of .sidebar-link elements
    bodyOverflow,     \* document.body.style.overflow
    innerWidth,       \* window.innerWidth
    sbLast,           \* the sidebar event handled last
    \* -- the signup form of the client-validated variant (main.js lines 105-156)
    signupFields,     \* the values of the controls of #signupForm
    signupOut,        \* what the handler of the last event on the form did
    location,         \* the page: window.location.href
    \* -- the store map (home-map.js)
    mapEl,            \* the element #home-stores-map exists
    leaflet,          \* window.L is defined
    dataStores,       \* the attribute data-stores of the element
    mapStatus,        \* "loading", "skipped", "thrown", "empty" or "plotted"
    warnings,         \* number of console.warn calls
    placeholders,     \* number of .goa-map__empty elements appended
    markers,          \* the markers added to the map, in order
    mapCalls,         \* the setView / fitBounds calls made on the map, in order
    scrollWheelZoom,  \* "none" (no map), "disabled" or "enabled"
    mapFocused,       \* the element has keyboard focus
    mapLast           \* what happened last: "none", "script", "focus", "blur"

formVars == <<steps, controls, progressSteps, prevBtn, nextBtn, submitBtn,
              formId, reportValidityApi, enabled, activeIndex, events, phase, last>>

sidebarVars == <<mobileMenuToggle, mobileSidebar, sidebarOverlay, sidebarClose,
                 sidebarLinks, bodyOverflow, innerWidth, sbLast>>

signupVars == <<signupFields, signupOut, location>>

mapVars == <<mapEl, leaflet, dataStores, mapStatus, warnings, placeholders,
             markers, mapCalls, scrollWheelZoom, mapFocused, mapLast>>

vars == <<formVars, sidebarVars, signupVars, mapVars>>

\* the variables of the other components, which no handler of the form writes
offForm == <<sidebarVars, signupVars, mapVars>>

offSidebar == <<formVars, signupVars, mapVars>>

offSignup == <<formVars, sidebarVars, mapVars>>

offMap == <<formVars, sidebarVars, signupVars>>

\* a page without #home-stores-map
MapAtRest ==
    /\ mapEl = FALSE
    /\ leaflet = FALSE
    /\ dataStores = [raw |-> "absent"]
    /\ mapStatus = "loading"
    /\ warnings = 0
    /\ placeholders = 0
    /\ markers = <<>>
    /\ mapCalls = <<>>
    /\ scrollWheelZoom = "none"
    /\ mapFocused = FALSE
    /\ mapLast = "none"

NoSidebarEvent == [type |-> "none", wasOpen |-> FALSE]

\* a page without the sidebar elements
SidebarAtRest ==
    /\ mobileMenuToggle = "absent"
    /\ mobileSidebar = "absent"
    /\ sidebarOverlay = "absent"
    /\ sidebarClose = FALSE
    /\ sidebarLinks = 0
    /\ bodyOverflow = ""
    /\ innerWidth = 1280
    /\ sbLast = NoSidebarEvent

\* what the document is served with and the script never writes
static == <<formId, reportValidityApi>>

view == <<steps, progressSteps, prevBtn, nextBtn, submitBtn>>

\* ---- markup the page can be served with ---------------------------------
BarePanel == [isActive |-> FALSE, ariaHidden |-> "unset"]
MarkedPanel == [isActive |-> TRUE, ariaHidden |-> "false"]
BareIndicator == [isActive |-> FALSE, isComplete |-> FALSE]
MarkedIndicator == [isActive |-> TRUE, isComplete |-> TRUE]

SeqsUpTo(S, n) == UNION {[1..m -> S] : m \in 0..n}

RECURSIVE TotalLen(_, _)
TotalLen(f, k) == IF k = 0 THEN 0 ELSE Len(f[k]) + TotalLen(f, k - 1)

ControlLayouts(n) ==
    {f \in [1..n -> SeqsUpTo(BOOLEAN, MaxControls)] : TotalLen(f, n) <= MaxControls}

NoEvent == [type |-> "none", action |-> "", validated |-> "notrun",
            reported |-> 0, prevented |-> FALSE, from |-> 0]

NoSignupEvent == [type |-> "none", prevented |-> FALSE, alerts |-> <<>>,
                  logged |-> FALSE]

\* a page without #signupForm
SignupAtRest ==
    /\ signupFields = <<>>
    /\ signupOut = NoSignupEvent
    /\ location = "index.html"

\* a page without a .multi-step-form
FormAtRest ==
    /\ steps = <<>>
    /\ controls = <<>>
    /\ progressSteps = <<>>
    /\ prevBtn = "absent"
    /\ nextBtn = "absent"
    /\ submitBtn = "absent"
    /\ formId = ""
    /\ reportValidityApi = TRUE
    /\ enabled = FALSE
    /\ activeIndex = 0
    /\ events = <<>>
    /\ phase = "loading"
    /\ last = NoEvent

Init ==
    /\ \E n \in 0..MaxSteps, marked \in BOOLEAN :
          /\ steps = [k \in 1..n |-> IF marked THEN MarkedPanel ELSE BarePanel]
          /\ controls \in ControlLayouts(n)
          /\ \E p \in 0..MaxProgress :
                progressSteps =
                    [k \in 1..p |-> IF marked THEN MarkedIndicator ELSE BareIndicator]
          /\ prevBtn \in {"absent", IF marked THEN "disabled" ELSE "enabled"}
          /\ nextBtn \in {"absent", IF marked THEN "hidden" ELSE "shown"}
          /\ submitBtn \in {"absent", IF marked THEN "hidden" ELSE "shown"}
    /\ formId \in {"", "seller-form"}
    /\ reportValidityApi \in BOOLEAN
    /\ enabled = FALSE
    /\ activeIndex = 0
    /\ events = <<>>
    /\ phase = "loading"
    /\ last = NoEvent
    /\ SidebarAtRest
    /\ SignupAtRest
    /\ MapAtRest

\* ---- validateStep -------------------------------------------------------
\* The loop over the controls of a panel: reportValidity() is called on each
\* control in document order until one returns false.
RECURSIVE reportLoop(_, _)
reportLoop(cs, k) ==
    IF k > Len(cs) THEN [ok |-> TRUE, reported |-> 0]
    ELSE IF reportValidityApi /\ ~cs[k] THEN [ok |-> FALSE, reported |-> k]
    ELSE reportLoop(cs, k + 1)

validateStepFirstControlOnly(idx) ==
    IF idx < 0 \/ idx >= Len(steps) THEN [ok |-> TRUE, reported |-> 0]
    ELSE IF Len(controls[idx + 1]) > 0 /\ reportValidityApi /\ ~controls[idx + 1][1]
         THEN [ok |-> FALSE, reported |-> 1]
         ELSE [ok |-> TRUE, reported |-> 0]

\* validateStep(steps[idx]); steps[idx] is undefined outside the array
validateStep(idx) ==
    IF idx < 0 \/ idx >= Len(steps) THEN [ok |-> TRUE, reported |-> 0]
    ELSE reportLoop(controls[idx + 1], 1)

validatedAs(r) == IF r.ok THEN "valid" ELSE "invalid"

\* ---- setStep ------------------------------------------------------------
StepInRangeNoUpperBound(newIndex) == ~(newIndex < 0)

StepInRangeNoLowerBound(newIndex) == ~(newIndex >= Len(steps))

StepInRange(newIndex) == ~(newIndex < 0 \/ newIndex >= Len(steps))

BoolString(b) == IF b THEN "true" ELSE "false"

stepsAfterKeepsOldActive(newIndex) ==
    [k \in 1..Len(steps) |->
        [isActive |-> (k - 1 = newIndex) \/ steps[k].isActive,
         ariaHidden |-> BoolString(~(k - 1 = newIndex))]]

stepsAfter(newIndex) ==
    [k \in 1..Len(steps) |->
        LET isActive == (k - 1 = newIndex)
        IN  [isActive |-> isActive, ariaHidden |-> BoolString(~isActive)]]

progressAfter(newIndex) ==
    [k \in 1..Len(progressSteps) |->
        [isActive |-> (k - 1 = newIndex), isComplete |-> (k - 1 < newIndex)]]

prevBtnAfter(newIndex) ==
    IF prevBtn # "absent"
    THEN (IF newIndex = 0 THEN "disabled" ELSE "enabled")
    ELSE prevBtn

nextBtnAfter(newIndex) ==
    IF nextBtn # "absent"
    THEN (IF newIndex = Len(steps) - 1 THEN "hidden" ELSE "shown")
    ELSE nextBtn

submitBtnAfter(newIndex) ==
    IF submitBtn # "absent"
    THEN (IF newIndex # Len(steps) - 1 THEN "hidden" ELSE "shown")
    ELSE submitBtn

stepchangeStepNumberIsIndex(idx) ==
    [formId |-> IF formId # "" THEN formId ELSE "null",
     stepIndex |-> idx, stepNumber |-> idx]

\* detail of the CustomEvent amcho:stepchange
stepchange(idx) ==
    [formId |-> IF formId # "" THEN formId ELSE "null",
     stepIndex |-> idx, stepNumber |-> idx + 1]

setStep(newIndex) ==
    IF ~StepInRange(newIndex)
    THEN UNCHANGED <<steps, progressSteps, prevBtn, nextBtn, submitBtn,
                     activeIndex, events>>
    ELSE /\ steps' = stepsAfter(newIndex)
         /\ progressSteps' = progressAfter(newIndex)
         /\ prevBtn' = prevBtnAfter(newIndex)
         /\ nextBtn' = nextBtnAfter(newIndex)
         /\ submitBtn' = submitBtnAfter(newIndex)
         /\ activeIndex' = newIndex
         /\ events' = Append(events, stepchange(newIndex))

\* ---- initMultiStepForms -------------------------------------------------
QualifiesWithOneStep == ~(Len(steps) < 1)

\* the early return `if (steps.length <= 1) return;`
Qualifies == ~(Len(steps) <= 1)

DOMContentLoaded ==
    /\ phase = "loading"
    /\ phase' = "ready"
    /\ last' = [NoEvent EXCEPT !.type = "DOMContentLoaded"]
    /\ UNCHANGED <<controls, static, offForm>>
    /\ IF Qualifies
       THEN /\ enabled' = TRUE
            /\ setStep(0)
       ELSE UNCHANGED <<steps, progressSteps, prevBtn, nextBtn, submitBtn,
                        enabled, activeIndex, events>>

\* ---- the click listener of the form -------------------------------------
NextTargetStays(i) == i

NextTargetSkips(i) == i + 2

NextTarget(i) == i + 1

PrevTarget(i) == i - 1

CanDispatch == Len(events) < MaxEvents

\* a click whose target is inside an element with data-step-action="next"
ClickNext ==
    /\ phase = "ready"
    /\ nextBtn # "absent"
    /\ CanDispatch
    /\ UNCHANGED <<controls, enabled, phase, static, offForm>>
    /\ IF enabled
       THEN LET r == validateStep(activeIndex)
            IN  /\ last' = [type |-> "click", action |-> "next",
                            validated |-> validatedAs(r), reported |-> r.reported,
                            prevented |-> TRUE, from |-> activeIndex]
                /\ IF ~r.ok
                   THEN UNCHANGED <<steps, progressSteps, prevBtn, nextBtn,
                                    submitBtn, activeIndex, events>>
                   ELSE setStep(NextTarget(activeIndex))
       ELSE /\ last' = [NoEvent EXCEPT !.type = "click", !.action = "next"]
            /\ UNCHANGED <<steps, progressSteps, prevBtn, nextBtn, submitBtn,
                           activeIndex, events>>

ClickPrevWithValidation ==
    /\ phase = "ready"
    /\ prevBtn # "absent"
    /\ Len(events) < MaxEvents
    /\ UNCHANGED <<controls, enabled, phase, static, offForm>>
    /\ IF enabled
       THEN LET r == validateStep(activeIndex)
            IN  /\ last' = [type |-> "click", action |-> "prev",
                            validated |-> validatedAs(r), reported |-> r.reported,
                            prevented |-> TRUE, from |-> activeIndex]
                /\ IF ~r.ok
                   THEN UNCHANGED <<steps, progressSteps, prevBtn, nextBtn,
                                    submitBtn, activeIndex, events>>
                   ELSE setStep(PrevTarget(activeIndex))
       ELSE /\ last' = [NoEvent EXCEPT !.type = "click", !.action = "prev"]
            /\ UNCHANGED <<steps, progressSteps, prevBtn, nextBtn, submitBtn,
                           activeIndex, events>>

\* a click whose target is inside an element with data-step-action="prev"
ClickPrev ==
    /\ phase = "ready"
    /\ prevBtn # "absent"
    /\ CanDispatch
    /\ UNCHANGED <<controls, enabled, phase, static, offForm>>
    /\ IF enabled
       THEN /\ last' = [type |-> "click", action |-> "prev",
                        validated |-> "notrun", reported |-> 0,
                        prevented |-> TRUE, from |-> activeIndex]
            /\ setStep(PrevTarget(activeIndex))
       ELSE /\ last' = [NoEvent EXCEPT !.type = "click", !.action = "prev"]
            /\ UNCHANGED <<steps, progressSteps, prevBtn, nextBtn, submitBtn,
                           activeIndex, events>>

\* a click anywhere else in the form: closest("[data-step-action]") is null
ClickElsewhere ==
    /\ phase = "ready"
    /\ last' = [NoEvent EXCEPT !.type = "click", !.action = "none",
                               !.from = activeIndex]
    /\ UNCHANGED <<steps, controls, progressSteps, prevBtn, nextBtn, submitBtn,
                   enabled, activeIndex, events, phase, static, offForm>>

\* a click inside an element whose data-step-action is neither next nor prev
ClickOtherAction ==
    /\ phase = "ready"
    /\ last' = [NoEvent EXCEPT !.type = "click", !.action = "other",
                               !.prevented = enabled, !.from = activeIndex]
    /\ UNCHANGED <<steps, controls, progressSteps, prevBtn, nextBtn, submitBtn,
                   enabled, activeIndex, events, phase, static, offForm>>

\* ---- the submit listener of the form ------------------------------------
SubmitInterceptedInverted == activeIndex = Len(steps) - 1

SubmitIntercepted == activeIndex # Len(steps) - 1

Submit ==
    /\ phase = "ready"
    /\ CanDispatch
    /\ UNCHANGED <<controls, enabled, static, offForm>>
    /\ IF enabled /\ SubmitIntercepted
       THEN LET r == validateStep(activeIndex)
            IN  /\ last' = [type |-> "submit", action |-> "",
                            validated |-> validatedAs(r), reported |-> r.reported,
                            prevented |-> TRUE, from |-> activeIndex]
                /\ phase' = phase
                /\ IF ~r.ok
                   THEN UNCHANGED <<steps, progressSteps, prevBtn, nextBtn,
                                    submitBtn, activeIndex, events>>
                   ELSE setStep(activeIndex + 1)
       ELSE /\ last' = [NoEvent EXCEPT !.type = "submit", !.from = activeIndex]
            /\ phase' = "submitted"
            /\ UNCHANGED <<steps, progressSteps, prevBtn, nextBtn, submitBtn,
                           activeIndex, events>>

\* ---- the user edits a control: its validity flips -----------------------
Input ==
    /\ phase = "ready"
    /\ \E k \in 1..Len(controls) :
          \E j \in 1..Len(controls[k]) :
             controls' = [controls EXCEPT ![k][j] = ~@]
    /\ last' = [NoEvent EXCEPT !.type = "input", !.from = activeIndex]
    /\ UNCHANGED <<steps, progressSteps, prevBtn, nextBtn, submitBtn,
                   enabled, activeIndex, events, phase, static, offForm>>

Next ==
    \/ DOMContentLoaded
    \/ ClickNext
    \/ ClickPrev
    \/ ClickElsewhere
    \/ ClickOtherAction
    \/ Submit
    \/ Input

Spec == Init /\ [][Next]_vars

\* ==== properties of the multi-step form =================================
stepCount == Len(steps)

lastIndex == Len(steps) - 1

\* some control of panel idx answers false to reportValidity()
ReportsInvalid(idx) ==
    /\ reportValidityApi
    /\ \E j \in 1..Len(controls[idx + 1]) : ~controls[idx + 1][j]

IsNextClick == last'.type = "click" /\ last'.action = "next"

IsPrevClick == last'.type = "click" /\ last'.action = "prev"

IsSubmit == last'.type = "submit"

Untouched == activeIndex' = activeIndex /\ view' = view /\ events' = events

\* C1: once a form with more than one panel is activated, activeIndex is an
\* integer of 0 .. steps.length - 1, whatever clicks, submits and edits follow.
C1_IndexInRange ==
    (stepCount > 1 /\ phase # "loading") =>
        (enabled /\ activeIndex \in 0..lastIndex)

\* a next click was handled on the last panel and the index stayed there
C1_Witness ==
    /\ enabled /\ stepCount >= 2
    /\ last.type = "click" /\ last.action = "next" /\ last.validated = "valid"
    /\ last.from = lastIndex /\ activeIndex = lastIndex

\* C2: a next click while a control of the current panel reports itself
\* invalid changes neither the index, nor any panel, indicator or button,
\* and dispatches no amcho:stepchange.
C2_InvalidBlocksNext ==
    [][(IsNextClick /\ enabled /\ ReportsInvalid(activeIndex)) => Untouched]_vars

\* a next click was rejected because the second control of the panel is
\* invalid while the first one is valid
C2_Witness ==
    /\ enabled
    /\ last.type = "click" /\ last.action = "next"
    /\ last.validated = "invalid" /\ last.reported = 2
    /\ activeIndex = last.from

\* C3: a step that changes the index, or that activates the form, appends
\* exactly one amcho:stepchange whose stepIndex is the new index and whose
\* stepNumber is stepIndex + 1; every other step appends none.
C3_OneEventPerTransition ==
    [][IF activeIndex' # activeIndex \/ (enabled' /\ ~enabled)
       THEN /\ Len(events') = Len(events) + 1
            /\ SubSeq(events', 1, Len(events)) = events
            /\ events'[Len(events')].stepIndex = activeIndex'
            /\ events'[Len(events')].stepNumber = activeIndex' + 1
       ELSE events' = events]_vars

\* the log holds the initial event and one event per accepted transition
C3_Witness ==
    /\ enabled /\ Len(events) = 3
    /\ events[1].stepIndex = 0 /\ events[2].stepIndex = 1
    /\ events[3].stepIndex = 0
    /\ last.type = "click" /\ last.action = "prev"

\* C4: a next click on the last panel and a prev click on panel 0 change
\* neither the index nor any panel, indicator or button, and dispatch nothing.
C4_EdgeClicksAreNoOps ==
    [][/\ (IsNextClick /\ enabled /\ activeIndex = lastIndex) => Untouched
       /\ (IsPrevClick /\ enabled /\ activeIndex = 0) => Untouched]_vars

\* a prev click was handled on panel 0 after the form had moved there and back
C4_Witness ==
    /\ enabled /\ Len(events) >= 3
    /\ last.type = "click" /\ last.action = "prev"
    /\ last.from = 0 /\ activeIndex = 0

\* C5: the submission of an activated form proceeds only when no control of
\* the last panel is invalid.
C5_SubmitNeedsValidLastStep ==
    (enabled /\ phase = "submitted") =>
        \A j \in 1..Len(controls[activeIndex + 1]) : controls[activeIndex + 1][j]

\* C6: a submit event away from the last panel is always prevented and does
\* what a next click does (index + 1 when the panel validates, nothing
\* otherwise); a submission proceeds only from the last panel.
C6_SubmitBeforeLastIsNext ==
    [][/\ (IsSubmit /\ enabled /\ activeIndex # lastIndex) =>
            /\ last'.prevented
            /\ phase' = "ready"
            /\ IF ReportsInvalid(activeIndex)
               THEN Untouched
               ELSE /\ activeIndex' = activeIndex + 1
                    /\ Len(events') = Len(events) + 1
       /\ (enabled /\ phase' = "submitted" /\ phase # "submitted") =>
            activeIndex = lastIndex]_vars

\* a submit event on panel 0 was turned into the transition to panel 1
C6_Witness ==
    /\ enabled /\ phase = "ready"
    /\ last.type = "submit" /\ last.prevented /\ last.validated = "valid"
    /\ last.from = 0 /\ activeIndex = 1

\* C7: in an activated form, panel k is active with aria-hidden "false" iff
\* k is the current index (aria-hidden "true" otherwise), indicator k is
\* active iff k is the index and complete iff k is below it, prev is disabled
\* iff the index is 0, next is hidden iff the index is the last one and
\* submit is hidden iff it is not.
C7_ViewMatchesIndex ==
    enabled =>
        /\ \A k \in 1..Len(steps) :
              /\ steps[k].isActive <=> (k - 1 = activeIndex)
              /\ steps[k].ariaHidden =
                    (IF k - 1 = activeIndex THEN "false" ELSE "true")
        /\ \A k \in 1..Len(progressSteps) :
              /\ progressSteps[k].isActive <=> (k - 1 = activeIndex)
              /\ progressSteps[k].isComplete <=> (k - 1 < activeIndex)
        /\ prevBtn # "absent" => (prevBtn = "disabled" <=> activeIndex = 0)
        /\ nextBtn # "absent" => (nextBtn = "hidden" <=> activeIndex = lastIndex)
        /\ submitBtn # "absent" => (submitBtn = "hidden" <=> activeIndex # lastIndex)

\* a form with every button and two indicators came back from its last
\* panel to the middle one: indicator 0 is complete and indicator 1 active
C7_Witness ==
    /\ enabled /\ stepCount >= 3 /\ Len(progressSteps) >= 2
    /\ prevBtn # "absent" /\ nextBtn # "absent" /\ submitBtn # "absent"
    /\ last.type = "click" /\ last.action = "prev"
    /\ last.from = lastIndex /\ activeIndex = lastIndex - 1

\* C8: a next click before the last panel, with no control of the current
\* panel reporting invalid, moves the index to exactly index + 1.
C8_NextAdvancesByOne ==
    [][(IsNextClick /\ enabled /\ activeIndex < lastIndex
            /\ ~ReportsInvalid(activeIndex))
        => activeIndex' = activeIndex + 1]_vars

\* a next click moved a form of three panels from panel 0 to panel 1
C8_Witness ==
    /\ enabled /\ stepCount >= 3
    /\ last.type = "click" /\ last.action = "next" /\ last.validated = "valid"
    /\ last.from = 0 /\ activeIndex = 1
    /\ Len(controls[1]) > 0

\* C9: a prev click after panel 0 moves the index to exactly index - 1 and
\* runs no validation, whatever the validity of the controls.
C9_PrevIsUnconditional ==
    [][(IsPrevClick /\ enabled /\ activeIndex > 0) =>
            /\ activeIndex' = activeIndex - 1
            /\ last'.validated = "notrun"
            /\ last'.reported = 0]_vars

\* a prev click left a panel that holds a control reporting invalid
C9_Witness ==
    /\ enabled
    /\ last.type = "click" /\ last.action = "prev"
    /\ last.from > 0 /\ activeIndex = last.from - 1
    /\ ReportsInvalid(last.from)

\* C10: a form with at most one panel is never marked multi-step-enabled,
\* none of its panels, indicators and buttons is ever written, no
\* amcho:stepchange is dispatched for it, none of its clicks is prevented
\* and its submit events proceed.
C10_SingleStepUntouched ==
    [][stepCount <= 1 =>
            /\ ~enabled /\ ~enabled'
            /\ view' = view
            /\ events = <<>> /\ events' = <<>>
            /\ ~last'.prevented
            /\ IsSubmit => phase' = "submitted"]_vars

\* a form with one panel, served with its state classes set, was submitted
\* after the page had loaded
C10_Witness ==
    /\ stepCount = 1 /\ steps[1] = MarkedPanel
    /\ phase = "submitted" /\ last.type = "submit" /\ ~last.prevented
    /\ ~enabled

\* ==== the sidebar ========================================================
MaxLinks == 2

Breakpoint == 768

\* the viewport widths a resize can leave the window with
Widths == {320, Breakpoint, Breakpoint + 1, 1280}

SidebarInit ==
    /\ mobileMenuToggle \in {"absent", ""}
    /\ mobileSidebar \in {"absent", ""}
    /\ sidebarOverlay \in {"absent", ""}
    /\ sidebarClose \in BOOLEAN
    /\ sidebarLinks \in 0..MaxLinks
    /\ bodyOverflow = ""
    /\ innerWidth \in Widths
    /\ sbLast = NoSidebarEvent

InitSidebar == SidebarInit /\ FormAtRest /\ SignupAtRest /\ MapAtRest

\* classList.add("active") / classList.remove("active") on an element that
\* may be null
addActive(el) == IF el # "absent" THEN "active" ELSE el

removeActive(el) == IF el # "absent" THEN "" ELSE el

openSidebarForgetsOverlay ==
    /\ mobileSidebar' = addActive(mobileSidebar)
    /\ sidebarOverlay' = sidebarOverlay
    /\ mobileMenuToggle' = addActive(mobileMenuToggle)
    /\ bodyOverflow' = "hidden"

openSidebar ==
    /\ mobileSidebar' = addActive(mobileSidebar)
    /\ sidebarOverlay' = addActive(sidebarOverlay)
    /\ mobileMenuToggle' = addActive(mobileMenuToggle)
    /\ bodyOverflow' = "hidden"

closeSidebarKeepsScrollLock ==
    /\ mobileSidebar' = removeActive(mobileSidebar)
    /\ sidebarOverlay' = removeActive(sidebarOverlay)
    /\ mobileMenuToggle' = removeActive(mobileMenuToggle)
    /\ bodyOverflow' = bodyOverflow

closeSidebar ==
    /\ mobileSidebar' = removeActive(mobileSidebar)
    /\ sidebarOverlay' = removeActive(sidebarOverlay)
    /\ mobileMenuToggle' = removeActive(mobileMenuToggle)
    /\ bodyOverflow' = ""

sidebarState == <<mobileMenuToggle, mobileSidebar, sidebarOverlay, bodyOverflow>>

sidebarEvent(t) == [type |-> t, wasOpen |-> mobileSidebar = "active"]

\* click on #mobile-menu-toggle; the listener exists only when the toggle
\* and the panel both exist
ToggleClick ==
    /\ mobileMenuToggle # "absent"
    /\ sbLast' = sidebarEvent("toggle")
    /\ IF mobileSidebar # "absent"
       THEN IF mobileSidebar = "active" THEN closeSidebar ELSE openSidebar
       ELSE UNCHANGED sidebarState
    /\ UNCHANGED <<sidebarClose, sidebarLinks, innerWidth, offSidebar>>

\* click on #sidebar-close
CloseClick ==
    /\ sidebarClose
    /\ sbLast' = sidebarEvent("close")
    /\ closeSidebar
    /\ UNCHANGED <<sidebarClose, sidebarLinks, innerWidth, offSidebar>>

\* click on #sidebar-overlay
OverlayClick ==
    /\ sidebarOverlay # "absent"
    /\ sbLast' = sidebarEvent("overlay")
    /\ closeSidebar
    /\ UNCHANGED <<sidebarClose, sidebarLinks, innerWidth, offSidebar>>

\* click on one of the .sidebar-link elements
LinkClick ==
    /\ \E i \in 1..sidebarLinks :
          sbLast' = [type |-> "link", wasOpen |-> mobileSidebar = "active"]
    /\ closeSidebar
    /\ UNCHANGED <<sidebarClose, sidebarLinks, innerWidth, offSidebar>>

ResizeClosesFromBreakpoint(w) ==
    w >= Breakpoint /\ mobileSidebar # "absent" /\ mobileSidebar = "active"

\* the condition of the resize listener
ResizeCloses(w) ==
    w > Breakpoint /\ mobileSidebar # "absent" /\ mobileSidebar = "active"

\* the window is resized to width w
Resize ==
    \E w \in Widths :
        /\ innerWidth' = w
        /\ sbLast' = sidebarEvent("resize")
        /\ IF ResizeCloses(w) THEN closeSidebar ELSE UNCHANGED sidebarState
        /\ UNCHANGED <<sidebarClose, sidebarLinks, offSidebar>>

NextSidebar ==
    \/ ToggleClick
    \/ CloseClick
    \/ OverlayClick
    \/ LinkClick
    \/ Resize

SpecSidebar == InitSidebar /\ [][NextSidebar]_vars

\* ---- properties of the sidebar ------------------------------------------
sidebarElements == {mobileMenuToggle, mobileSidebar, sidebarOverlay} \ {"absent"}

SidebarOpen == sidebarElements \subseteq {"active"} /\ bodyOverflow = "hidden"

SidebarClosed == sidebarElements \subseteq {""} /\ bodyOverflow = ""

\* C11: whatever toggle, close, overlay and link clicks and resizes happen,
\* the toggle, the panel and the overlay all carry the class active and the
\* body scroll is locked, or none carries it and the scroll is free.
C11_SidebarEffectsAgree == SidebarOpen \/ SidebarClosed

\* the sidebar of a page with all three elements was opened by the toggle
C11_Witness ==
    /\ mobileMenuToggle = "active" /\ mobileSidebar = "active"
    /\ sidebarOverlay = "active" /\ bodyOverflow = "hidden"
    /\ sbLast.type = "toggle"

\* C12: a resize to a width above 768 leaves the sidebar closed; a resize
\* to a width of at most 768 leaves the sidebar as it was.
C12_ResizePastBreakpointCloses ==
    [][sbLast'.type = "resize" =>
          IF innerWidth' > 768
          THEN SidebarClosed'
          ELSE sidebarState' = sidebarState]_vars

\* an open sidebar was closed by a resize to 769
C12_Witness ==
    /\ sbLast.type = "resize" /\ sbLast.wasOpen
    /\ innerWidth = 769
    /\ mobileMenuToggle = "" /\ mobileSidebar = "" /\ sidebarOverlay = ""
    /\ bodyOverflow = ""

\* C13: a click on the overlay, on the close control or on a sidebar link
\* leaves the sidebar closed, whether it was open or closed before.
C13_CloseControlsClose ==
    [][sbLast'.type \in {"overlay", "close", "link"} => SidebarClosed']_vars

\* an open sidebar was closed by a click on the overlay
C13_Witness ==
    /\ sbLast.type = "overlay" /\ sbLast.wasOpen
    /\ mobileMenuToggle = "" /\ mobileSidebar = "" /\ sidebarOverlay = ""
    /\ bodyOverflow = ""

\* ==== the signup form (client-validated variant) ==========================
\* the texts a user may have typed: nothing, or something
Texts == {"", "a"}

\* the passwords tried: none, 7, 8 and 9 characters
Passwords == {"", "1234567", "12345678", "abcdefghi"}

SignupFieldValues ==
    [firstName : Texts, lastName : Texts, email : Texts, phone : {""},
     password : Passwords, confirmPassword : Passwords,
     terms : BOOLEAN, newsletter : {FALSE}]

InitSignup ==
    /\ signupFields \in SignupFieldValues
    /\ signupOut = NoSignupEvent
    /\ location = "signup.html"
    /\ FormAtRest
    /\ SidebarAtRest
    /\ MapAtRest

RequiredMissing(f) ==
    f.firstName = "" \/ f.lastName = "" \/ f.email = ""
        \/ f.password = "" \/ f.confirmPassword = ""

PasswordTooShortAtEight(pw) == Len(pw) <= 8

PasswordTooShort(pw) == Len(pw) < 8

\* the alert the submit handler shows: the first failed check, or success
signupAlert(f) ==
    IF RequiredMissing(f) THEN "Please fill in all required fields."
    ELSE IF f.password # f.confirmPassword THEN "Passwords do not match."
    ELSE IF PasswordTooShort(f.password)
         THEN "Password must be at least 8 characters long."
    ELSE IF ~f.terms
         THEN "Please accept the Terms of Service and Privacy Policy."
    ELSE "Account created successfully! Redirecting to login page..."

SignupSucceeds(f) ==
    /\ ~RequiredMissing(f)
    /\ ~(f.password # f.confirmPassword)
    /\ ~PasswordTooShort(f.password)
    /\ ~(~f.terms)

\* the submit listener of #signupForm
SignupSubmit ==
    /\ location = "signup.html"
    /\ signupOut' = [type |-> "submit", prevented |-> TRUE,
                     alerts |-> <<signupAlert(signupFields)>>,
                     logged |-> SignupSucceeds(signupFields)]
    /\ location' = IF SignupSucceeds(signupFields) THEN "login.html" ELSE location
    /\ UNCHANGED <<signupFields, offSignup>>

\* the user changes the value of one control of the form
SignupEdit ==
    /\ location = "signup.html"
    /\ \E f \in SignupFieldValues :
          /\ Cardinality({k \in DOMAIN f : f[k] # signupFields[k]}) = 1
          /\ signupFields' = f
    /\ signupOut' = [NoSignupEvent EXCEPT !.type = "input"]
    /\ UNCHANGED <<location, offSignup>>

NextSignup ==
    \/ SignupSubmit
    \/ SignupEdit

SpecSignup == InitSignup /\ [][NextSignup]_vars

\* C20: a signup submit shows the success alert and redirects to the login
\* page iff the five required fields are non-empty, the password equals its
\* confirmation and has at least 8 characters, and the terms are accepted;
\* otherwise it shows exactly one error alert and does not redirect; the
\* native submission is prevented in every case.
C20_SignupValidation ==
    [][signupOut'.type = "submit" =>
          LET f == signupFields
              ok == /\ f.firstName # "" /\ f.lastName # "" /\ f.email # ""
                    /\ f.password # "" /\ f.confirmPassword # ""
                    /\ f.password = f.confirmPassword
                    /\ Len(f.password) >= 8
                    /\ f.terms
              success == "Account created successfully! Redirecting to login page..."
          IN  /\ signupOut'.prevented
              /\ Len(signupOut'.alerts) = 1
              /\ IF ok
                 THEN /\ signupOut'.alerts[1] = success
                      /\ location' = "login.html"
                 ELSE /\ signupOut'.alerts[1] # success
                      /\ location' = location]_vars

\* a signup with a password of exactly 8 characters succeeded
C20_Witness ==
    /\ signupOut.type = "submit" /\ location = "login.html"
    /\ Len(signupFields.password) = 8

\* ==== the store map (home-map.js) ========================================
MaxStores == 2

\* ---- JavaScript values as they come out of JSON.parse --------------------
\* Text is a sequence of one-character strings; a number is kept in
\* thousandths (15.4 is 15400), which is exact for the coordinates used.
Undefined == [t |-> "undefined"]

Null == [t |-> "null"]

NaN == [t |-> "nan"]

Infinity == [t |-> "infinity"]

Num(v) == [t |-> "number", v |-> v]

Str(cs) == [t |-> "string", s |-> cs]

Bool(b) == [t |-> "boolean", b |-> b]

\* a value that is not an object: property access on it gives undefined
Primitive == [t |-> "primitive"]

StoreObject(id, name, city, loc, image, lat, lng) ==
    [t |-> "object", id |-> id, name |-> name, city |-> city,
     location |-> loc, image |-> image, lat |-> lat, lng |-> lng]

\* store.<field> for an element of the array that is not null
Field(el, f) == IF el.t = "object" THEN el[f] ELSE Undefined

\* ToBoolean for the values a field can hold
Truthy(v) ==
    CASE v.t = "string" -> v.s # <<>>
      [] v.t = "number" -> v.v # 0
      [] v.t = "boolean" -> v.b
      [] v.t = "infinity" -> TRUE
      [] OTHER -> FALSE

\* ---- parseFloat ----------------------------------------------------------
Digits == {"0", "1", "2", "3", "4", "5", "6", "7", "8", "9"}

DigitValue(c) ==
    CASE c = "0" -> 0 [] c = "1" -> 1 [] c = "2" -> 2 [] c = "3" -> 3
      [] c = "4" -> 4 [] c = "5" -> 5 [] c = "6" -> 6 [] c = "7" -> 7
      [] c = "8" -> 8 [] c = "9" -> 9

RECURSIVE SkipSpaces(_)
SkipSpaces(cs) ==
    IF cs # <<>> /\ Head(cs) = " " THEN SkipSpaces(Tail(cs)) ELSE cs

\* the integer part: thousandths accumulated so far, digits seen, rest
RECURSIVE IntPart(_, _, _)
IntPart(cs, acc, seen) ==
    IF cs # <<>> /\ Head(cs) \in Digits
    THEN IntPart(Tail(cs), acc * 10 + DigitValue(Head(cs)) * 1000, TRUE)
    ELSE [v |-> acc, seen |-> seen, rest |-> cs]

\* the fraction: at most three decimals are significant in thousandths
RECURSIVE FracPart(_, _, _, _)
FracPart(cs, acc, scale, seen) ==
    IF cs # <<>> /\ Head(cs) \in Digits
    THEN FracPart(Tail(cs), acc + DigitValue(Head(cs)) * scale, scale \div 10, TRUE)
    ELSE [v |-> acc, seen |-> seen]

InfinityText == <<"I", "n", "f", "i", "n", "i", "t", "y">>

IsPrefix(p, cs) == Len(p) <= Len(cs) /\ SubSeq(cs, 1, Len(p)) = p

parseFloat(cs) ==
    LET body == SkipSpaces(cs)
        neg == body # <<>> /\ Head(body) = "-"
        unsigned == IF body # <<>> /\ Head(body) \in {"-", "+"} THEN Tail(body) ELSE body
        int == IntPart(unsigned, 0, FALSE)
        frac == IF int.rest # <<>> /\ Head(int.rest) = "."
                THEN FracPart(Tail(int.rest), 0, 100, FALSE)
                ELSE [v |-> 0, seen |-> FALSE]
        mag == int.v + frac.v
    IN  IF IsPrefix(InfinityText, unsigned) THEN Infinity
        ELSE IF ~int.seen /\ ~frac.seen THEN NaN
        ELSE Num(IF neg THEN 0 - mag ELSE mag)

\* Number.isFinite: true only of a finite number, without coercion
NumberIsFinite(v) == v.t = "number"

\* ---- normalizedStores ----------------------------------------------------
StoreText == <<"S", "t", "o", "r", "e">>

OrDefault(v, d) == IF Truthy(v) THEN v ELSE d

coerceWithoutParse(v) == IF v.t = "string" THEN NaN ELSE v

\* parseFloat(store.lat): text is parsed, a number stays, anything else is NaN
coerce(v) ==
    IF v.t = "string" THEN parseFloat(v.s)
    ELSE IF v.t \in {"number", "infinity", "nan"} THEN v
    ELSE NaN

normalize(el) ==
    [id |-> Field(el, "id"),
     name |-> OrDefault(Field(el, "name"), Str(StoreText)),
     city |-> OrDefault(Field(el, "city"), Str(<<>>)),
     location |-> OrDefault(Field(el, "location"), Str(<<>>)),
     image |-> OrDefault(Field(el, "image"), Str(<<>>)),
     lat |-> coerce(Field(el, "lat")),
     lng |-> coerce(Field(el, "lng"))]

keeps(store) == NumberIsFinite(store.lat) /\ NumberIsFinite(store.lng)

normalizedStores(items) ==
    SelectSeq([i \in 1..Len(items) |-> normalize(items[i])], keeps)

\* ---- escapeAttr ----------------------------------------------------------
RECURSIVE ReplaceAll(_, _, _)
ReplaceAll(cs, c, by) ==
    IF cs = <<>> THEN <<>>
    ELSE (IF Head(cs) = c THEN by ELSE <<Head(cs)>>) \o ReplaceAll(Tail(cs), c, by)

\* String(str || "")
TextOf(v) == IF Truthy(v) /\ v.t = "string" THEN v.s ELSE <<>>

escapeAttr(v) ==
    ReplaceAll(
        ReplaceAll(
            ReplaceAll(
                ReplaceAll(TextOf(v), "&", <<"&", "a", "m", "p", ";">>),
                "\"", <<"&", "q", "u", "o", "t", ";">>),
            "<", <<"&", "l", "t", ";">>),
        ">", <<"&", "g", "t", ";">>)

\* ---- buildStoreIcon ------------------------------------------------------
RECURSIVE DropTrailingSpaces(_)
DropTrailingSpaces(cs) ==
    IF cs # <<>> /\ cs[Len(cs)] = " "
    THEN DropTrailingSpaces(SubSeq(cs, 1, Len(cs) - 1)) ELSE cs

trim(cs) == DropTrailingSpaces(SkipSpaces(cs))

toUpperCase(c) ==
    CASE c = "a" -> "A" [] c = "b" -> "B" [] c = "x" -> "X" [] OTHER -> c

buildStoreIcon(store) ==
    LET trimmed == trim(TextOf(OrDefault(store.name, Str(<<"S">>))))
        initial == IF trimmed = <<>> THEN <<"S">> ELSE <<toUpperCase(Head(trimmed))>>
        hasImage == Truthy(store.image)
    IN  [className |-> "map-pin leaflet-div-icon",
         photo |-> hasImage,
         src |-> IF hasImage THEN escapeAttr(store.image) ELSE <<>>,
         alt |-> IF hasImage THEN escapeAttr(store.name) ELSE <<>>,
         span |-> IF hasImage THEN <<>> ELSE initial]

\* ---- the popup -----------------------------------------------------------
GoaText == <<"G", "o", "a">>

\* [store.location, store.city].filter(Boolean).join(", ")
labelLocation(store) ==
    LET l == TextOf(store.location)
        c == TextOf(store.city)
    IN  IF l # <<>> /\ c # <<>> THEN l \o <<",", " ">> \o c
        ELSE l \o c

\* the texts interpolated into the markup of the popup, as they are inserted
popupHtml(store) ==
    [name |-> TextOf(store.name),
     label |-> IF labelLocation(store) # <<>> THEN labelLocation(store) ELSE GoaText,
     href |-> store.id]

marker(store) ==
    [latlng |-> <<store.lat.v, store.lng.v>>,
     icon |-> buildStoreIcon(store),
     popup |-> popupHtml(store)]

\* ---- the attribute data-stores and JSON.parse ----------------------------
XText == <<"X">>

NameSamples ==
    {Undefined, Null, Str(<<>>), Str(XText), Str(<<"<", "b", ">">>),
     Str(<<"a", "&", "\"">>)}

CoordSamples ==
    {Num(15400), Num(73800), Str(<<"1", "5", ".", "9">>),
     Str(<<"7", "3", ".", "8", "a", "b", "c">>), Str(<<"a", "b", "c">>),
     Str(<<>>), Str(InfinityText), Null, Undefined, Bool(TRUE), Infinity}

IdText == Str(<<"s", "1">>)

SampleStore(name, lat, lng) ==
    StoreObject(IdText, name, Undefined, Undefined, Undefined, lat, lng)

\* the elements a JSON array can hold: null, a value that is not an object,
\* and store objects
ElementSamples ==
    {Null, Primitive}
        \cup {SampleStore(n, Num(15400), Num(73800)) : n \in NameSamples}
        \cup {SampleStore(Str(XText), c, Num(73800)) : c \in CoordSamples}
        \cup {SampleStore(Str(XText), Num(15400), c) : c \in CoordSamples}
        \cup {StoreObject(IdText, Str(<<"a", "<">>), Str(<<"P">>), Str(<<"M">>),
                          Str(<<"u", "&">>), Num(15200), Num(74100))}

JsonArray(items) == [t |-> "array", items |-> items]

JsonObject == [t |-> "plainobject"]

\* what the attribute can hold: nothing, the empty text, text that is not
\* JSON, or JSON text (given by the value JSON.parse returns for it)
DatasetSamples ==
    {[raw |-> "absent"], [raw |-> "empty"], [raw |-> "garbage"]}
        \cup {[raw |-> "json", value |-> v] :
                v \in {Null, Num(5000), Bool(TRUE), Str(XText), JsonObject}}
        \cup {[raw |-> "json", value |-> JsonArray(items)] :
                items \in SeqsUpTo(ElementSamples, MaxStores)}

\* JSON.parse(mapEl.dataset.stores || "[]")
jsonParse(data) ==
    CASE data.raw \in {"absent", "empty"} -> [threw |-> FALSE, value |-> JsonArray(<<>>)]
      [] data.raw = "garbage" -> [threw |-> TRUE]
      [] data.raw = "json" -> [threw |-> FALSE, value |-> data.value]

storesOfUncaught(data) ==
    LET r == jsonParse(data)
    IN  IF r.threw THEN [threw |-> TRUE, warned |-> 0]
        ELSE [threw |-> FALSE, warned |-> 0, value |-> r.value]

\* the try/catch around JSON.parse: the value of `stores` after it
storesOf(data) ==
    LET r == jsonParse(data)
    IN  IF r.threw THEN [threw |-> FALSE, warned |-> 1, value |-> JsonArray(<<>>)]
        ELSE [threw |-> FALSE, warned |-> 0, value |-> r.value]

\* stores.map(...) throws a TypeError when stores is not an array (null has
\* no properties, the others have no map method) and when an element is null
mapThrows(v) ==
    \/ v.t # "array"
    \/ \E i \in 1..Len(v.items) : v.items[i].t = "null"

\* ---- the map -------------------------------------------------------------
GOA_CENTER == <<15399, 73974>>

DEFAULT_ZOOM == 9

SINGLE_ZOOM == 13

FIT_PADDING == 30

FIT_MAX_ZOOM == 15

setViewCall(center, zoom) == [op |-> "setView", center |-> center, zoom |-> zoom]

fitBoundsCall(bounds) ==
    [op |-> "fitBounds", bounds |-> bounds,
     padding |-> <<FIT_PADDING, FIT_PADDING>>, maxZoom |-> FIT_MAX_ZOOM]

FitsBoundsFromThree(bounds) == Len(bounds) > 2

FitsBounds(bounds) == Len(bounds) > 1

InitMap ==
    /\ mapEl \in BOOLEAN
    /\ leaflet \in BOOLEAN
    /\ dataStores \in IF mapEl THEN DatasetSamples ELSE {[raw |-> "absent"]}
    /\ mapStatus = "loading"
    /\ warnings = 0
    /\ placeholders = 0
    /\ markers = <<>>
    /\ mapCalls = <<>>
    /\ scrollWheelZoom = "none"
    /\ mapFocused = FALSE
    /\ mapLast = "none"
    /\ FormAtRest
    /\ SidebarAtRest
    /\ SignupAtRest

\* the script home-map.js runs
MapScript ==
    /\ mapStatus = "loading"
    /\ mapLast' = "script"
    /\ UNCHANGED <<mapEl, leaflet, dataStores, mapFocused, offMap>>
    /\ IF ~mapEl \/ ~leaflet
       THEN /\ mapStatus' = "skipped"
            /\ UNCHANGED <<warnings, placeholders, markers, mapCalls, scrollWheelZoom>>
       ELSE LET parsed == storesOf(dataStores)
            IN  /\ warnings' = warnings + parsed.warned
                /\ IF parsed.threw \/ mapThrows(parsed.value)
                   THEN /\ mapStatus' = "thrown"
                        /\ UNCHANGED <<placeholders, markers, mapCalls, scrollWheelZoom>>
                   ELSE LET stores == normalizedStores(parsed.value.items)
                            bounds == [i \in 1..Len(stores) |->
                                          <<stores[i].lat.v, stores[i].lng.v>>]
                        IN  /\ scrollWheelZoom' = "disabled"
                            /\ IF Len(stores) = 0
                               THEN /\ mapStatus' = "empty"
                                    /\ placeholders' = placeholders + 1
                                    /\ markers' = markers
                                    /\ mapCalls' = <<setViewCall(GOA_CENTER, DEFAULT_ZOOM)>>
                               ELSE /\ mapStatus' = "plotted"
                                    /\ placeholders' = placeholders
                                    /\ markers' = [i \in 1..Len(stores) |-> marker(stores[i])]
                                    /\ mapCalls' =
                                          <<setViewCall(GOA_CENTER, DEFAULT_ZOOM),
                                            IF FitsBounds(bounds)
                                            THEN fitBoundsCall(bounds)
                                            ELSE setViewCall(bounds[1], SINGLE_ZOOM)>>

\* the focus and blur listeners exist once the script got past L.map
MapListening == mapStatus \in {"empty", "plotted"}

onBlurEnables == "enabled"

onFocus == "enabled"

onBlur == "disabled"

\* the element receives keyboard focus
MapFocus ==
    /\ mapEl /\ mapStatus # "loading" /\ ~mapFocused
    /\ mapFocused' = TRUE
    /\ mapLast' = "focus"
    /\ scrollWheelZoom' = IF MapListening THEN onFocus ELSE scrollWheelZoom
    /\ UNCHANGED <<mapEl, leaflet, dataStores, mapStatus, warnings, placeholders,
                   markers, mapCalls, offMap>>

\* the element loses keyboard focus
MapBlur ==
    /\ mapEl /\ mapStatus # "loading" /\ mapFocused
    /\ mapFocused' = FALSE
    /\ mapLast' = "blur"
    /\ scrollWheelZoom' = IF MapListening THEN onBlur ELSE scrollWheelZoom
    /\ UNCHANGED <<mapEl, leaflet, dataStores, mapStatus, warnings, placeholders,
                   markers, mapCalls, offMap>>

NextMap ==
    \/ MapScript
    \/ MapFocus
    \/ MapBlur

SpecMap == InitMap /\ [][NextMap]_vars

\* ---- properties of the store map -----------------------------------------
MapRan == mapEl /\ leaflet /\ mapStatus # "loading"

IsArray(data) == data.raw = "json" /\ data.value.t = "array"

itemsOf(data) == IF IsArray(data) THEN data.value.items ELSE <<>>

HasNullElement(data) == \E i \in 1..Len(itemsOf(data)) : itemsOf(data)[i].t = "null"

\* text that begins, after blanks and a sign, with a number
StartsWithNumber(cs) ==
    LET body == SkipSpaces(cs)
        unsigned == IF body # <<>> /\ Head(body) \in {"-", "+"} THEN Tail(body) ELSE body
    IN  \/ unsigned # <<>> /\ Head(unsigned) \in Digits
        \/ Len(unsigned) >= 2 /\ unsigned[1] = "." /\ unsigned[2] \in Digits

\* a coordinate that is a finite number, or text that reads as one
FiniteCoordinate(raw) ==
    \/ raw.t = "number"
    \/ raw.t = "string" /\ StartsWithNumber(raw.s)

ValidRecord(el) ==
    /\ el.t = "object"
    /\ FiniteCoordinate(el.lat)
    /\ FiniteCoordinate(el.lng)

validRecords == SelectSeq(itemsOf(dataStores), ValidRecord)

\* C14: for an attribute that is absent, unparsable, or JSON that is not an
\* array of store objects (null, an object, a number, an array holding
\* null), the script ends in the empty state: placeholder shown, no marker.
C14_MalformedDegradesToEmpty ==
    (MapRan /\ (\/ dataStores.raw \in {"absent", "garbage"}
                \/ dataStores.raw = "json" /\ ~IsArray(dataStores)
                \/ HasNullElement(dataStores)))
        => (mapStatus = "empty" /\ placeholders = 1 /\ markers = <<>>)

\* C15: the name in the popup of every marker is the store name with
\* & " < > escaped.
C15_PopupNameEscaped ==
    mapStatus = "plotted" =>
        \A i \in 1..Len(markers) :
            LET store == normalizedStores(itemsOf(dataStores))[i]
            IN  /\ markers[i].popup.name = escapeAttr(store.name)
                /\ \A k \in 1..Len(markers[i].popup.name) :
                      markers[i].popup.name[k] \notin {"<", ">", "\""}

\* C16: when the script has gone through an array, the markers are, in
\* order, the records whose lat and lng are both finite numbers after the
\* coercion of text, one marker each; a record with a missing, null or
\* non-numeric coordinate has none.
C16_MarkersAreFiniteRecords ==
    (MapRan /\ IsArray(dataStores) /\ ~HasNullElement(dataStores)) =>
        /\ Len(markers) = Len(validRecords)
        /\ \A i \in 1..Len(markers) :
              markers[i].latlng =
                  <<coerce(validRecords[i].lat).v, coerce(validRecords[i].lng).v>>

\* two records, the first with a coordinate that is not numeric, the second
\* with a coordinate given as text: only the second has a marker
C16_Witness ==
    /\ mapStatus = "plotted" /\ Len(itemsOf(dataStores)) = 2
    /\ itemsOf(dataStores)[1] = SampleStore(Str(XText), Null, Num(73800))
    /\ itemsOf(dataStores)[2].lat.t = "string"
    /\ Len(markers) = 1 /\ markers[1].latlng = <<15900, 73800>>

\* C17: for [] , unparsable text, or an array none of whose records has two
\* finite coordinates, the script appends exactly one placeholder, adds no
\* marker and makes no view call after the initial setView.
C17_EmptyState ==
    (MapRan /\ (\/ dataStores.raw \in {"absent", "empty", "garbage"}
                \/ /\ IsArray(dataStores) /\ ~HasNullElement(dataStores)
                   /\ validRecords = <<>>))
        => /\ mapStatus = "empty"
           /\ placeholders = 1
           /\ markers = <<>>
           /\ mapCalls = <<[op |-> "setView", center |-> <<15399, 73974>>, zoom |-> 9]>>

\* unparsable text ended in the empty state after one console warning
C17_Witness ==
    /\ dataStores.raw = "garbage" /\ mapStatus = "empty" /\ warnings = 1
    /\ placeholders = 1

lastCall == mapCalls[Len(mapCalls)]

\* C18: with one valid store the last view call is setView on its
\* coordinate at zoom 13; with two or more it is fitBounds on bounds that
\* hold the coordinate of every marker, padding 30, maxZoom 15; no
\* placeholder is shown in either case.
C18_FinalView ==
    (MapRan /\ IsArray(dataStores) /\ ~HasNullElement(dataStores)) =>
        /\ Len(validRecords) = 1 =>
              /\ Len(markers) = 1 /\ placeholders = 0
              /\ lastCall = [op |-> "setView", center |-> markers[1].latlng, zoom |-> 13]
        /\ Len(validRecords) >= 2 =>
              /\ placeholders = 0
              /\ lastCall.op = "fitBounds"
              /\ lastCall.padding = <<30, 30>> /\ lastCall.maxZoom = 15
              /\ \A i \in 1..Len(markers) :
                    \E j \in 1..Len(lastCall.bounds) :
                        lastCall.bounds[j] = markers[i].latlng

\* two stores at different places were fitted into the view
C18_Witness ==
    /\ mapStatus = "plotted" /\ Len(markers) = 2
    /\ markers[1].latlng # markers[2].latlng
    /\ lastCall.op = "fitBounds" /\ Len(lastCall.bounds) = 2

\* C19: once the map exists, in the empty and in the plotted state alike,
\* scroll-wheel zoom is enabled exactly while the element has focus.
C19_ZoomFollowsFocus ==
    mapStatus \in {"empty", "plotted"} =>
        /\ scrollWheelZoom \in {"enabled", "disabled"}
        /\ scrollWheelZoom = "enabled" <=> mapFocused

\* the element of a map in the empty state lost focus again
C19_Witness ==
    /\ mapStatus = "empty" /\ mapLast = "blur"
    /\ ~mapFocused /\ scrollWheelZoom = "disabled"

\* ==== the wizard under clicks that keep coming ============================
\* The record `events` is what a listener of amcho:stepchange has seen; the
\* listener empties a full record, so that dispatching never has to stop.
ClearLog ==
    /\ phase = "ready"
    /\ ~CanDispatch
    /\ events' = <<>>
    /\ UNCHANGED <<steps, controls, progressSteps, prevBtn, nextBtn, submitBtn,
                   enabled, activeIndex, phase, last, static, offForm>>

\* a next click or a submit event: the two events that ask for the next panel
Advance == ClickNext \/ Submit

NextLive ==
    \/ Next
    \/ ClearLog

\* A page with a form of more than one panel. The markup that plays no
\* part in which panel is shown is taken in one shape: panels served without
\* the class active, a form id, one indicator per panel as far as
\* MaxProgress allows.
InitLive ==
    /\ Init
    /\ Qualifies
    /\ steps[1] = BarePanel
    /\ formId = "seller-form"
    /\ Len(progressSteps) = IF Len(steps) < MaxProgress THEN Len(steps) ELSE MaxProgress

\* The browser fires DOMContentLoaded; next clicks or submit events keep
\* being delivered; the listener keeps up with the events.
SpecLive ==
    /\ InitLive
    /\ [][NextLive]_vars
    /\ WF_vars(DOMContentLoaded)
    /\ WF_vars(Advance)
    /\ WF_vars(ClearLog)

NoneInvalid == \A idx \in 0..lastIndex : ~ReportsInvalid(idx)

AtLast == enabled /\ activeIndex = lastIndex

PrevClicked == last.type = "click" /\ last.action = "prev"

\* C21 as stated: in a form with more than one panel whose controls stay
\* valid, next clicks or submit events that keep being delivered bring the
\* form to the last panel.
C21_NextClicksReachLast ==
    ([]NoneInvalid) => <>(stepCount > 1 => AtLast)

\* C21, amended: if from some point on the controls stay valid and no prev
\* click is handled, the form comes to the last panel and stays there; on the
\* last panel only a prev click changes the index, the next control is
\* hidden and the submit control is shown.
C21_SettledClicksReachLast ==
    /\ (<>[](NoneInvalid /\ ~PrevClicked)) => <>[](stepCount > 1 => AtLast)
    /\ [][(AtLast /\ ~IsPrevClick) => activeIndex' = activeIndex]_vars
    /\ []((stepCount > 1 /\ AtLast) =>
            (nextBtn \in {"absent", "hidden"} /\ submitBtn \in {"absent", "shown"}))

\* the form went back by a prev click and was brought to the last panel
\* again by a next click; next is hidden and submit is shown
C21_Witness ==
    /\ AtLast /\ stepCount > 1
    /\ last.type = "click" /\ last.action = "next" /\ last.from = lastIndex - 1
    /\ \E i \in 1..(Len(events) - 1) : events[i].stepIndex > events[i + 1].stepIndex
    /\ nextBtn = "hidden" /\ submitBtn = "shown"

====
